---- MODULE Spec2Model ----
(***************************************************************************)
(* Model of the project/task store of GanttAPP                             *)
(* (src/src/core/stores/ProjectStore.js): the zustand store with its CRUD  *)
(* operations on projects, tasks and dependencies, and the serialize /     *)
(* deserialize pair of its persistence options.                            *)
(*                                                                         *)
(* JavaScript values are tagged records (field k is the tag), so that a    *)
(* field that the code leaves as a string, a number, null or an invalid    *)
(* Date is a different value from a valid Date.  Instants are integers in  *)
(* milliseconds.                                                           *)
(***************************************************************************)
EXTENDS Integers, Sequences, FiniteSets, TLC

\* ------------------------------------------------------------------------
\* Bounds of the model
\* ------------------------------------------------------------------------
\* number of identifiers the uuid generator hands out (projects + tasks)
MaxIds == 3
\* number of times the wall clock advances
MaxTicks == 1
\* the calls of the API-backed store started in one run
MaxCalls == 3

\* ------------------------------------------------------------------------
\* Program constants
\* ------------------------------------------------------------------------
\* 24 * 60 * 60 * 1000
DAY == 86400000
\* 7 * 24 * 60 * 60 * 1000
WEEK == 604800000
\* Math.max(0, ...) / Math.min(100, ...)
MinCompletion == 0
MaxCompletion == 100
\* the sum of the character codes of SEED, from which generateMockData
\* counts the ids of its tasks
SeedHash == 1370

\* ------------------------------------------------------------------------
\* JavaScript values
\* ------------------------------------------------------------------------
NULL == [k |-> "null"]
UNDEF == [k |-> "undefined"]
Num(n) == [k |-> "number", nan |-> FALSE, n |-> n]
NaN == [k |-> "number", nan |-> TRUE, n |-> 0]
Str(s) == [k |-> "string", iso |-> FALSE, text |-> s]
DateOf(ms) == [k |-> "Date", valid |-> TRUE, ms |-> ms]
InvalidDate == [k |-> "Date", valid |-> FALSE, ms |-> 0]
\* a plain object without own properties, {}
EmptyObj == [k |-> "object"]
Arr(items) == [k |-> "array", items |-> items]

\* Date.prototype.toISOString / toJSON: the calendar day and the time of
\* day of the instant, written as text
ToISOString(ms) == [k |-> "string", iso |-> TRUE, day |-> ms \div DAY, tod |-> ms % DAY]

\* new Date(string): an ISO text gives back its instant, any other text is
\* an Invalid Date
ParseDateString(v) ==
  IF v.iso THEN DateOf(v.day * DAY + v.tod) ELSE InvalidDate

\* new Date(value) for a string, a number, null, undefined or a Date
NewDate(v) ==
  CASE v.k = "string" -> ParseDateString(v)
    [] v.k = "number" -> IF v.nan THEN InvalidDate ELSE DateOf(v.n)
    [] v.k = "Date" -> v
    [] v.k = "null" -> DateOf(0)
    [] OTHER -> InvalidDate

\* JavaScript truthiness
Truthy(v) ==
  CASE v.k = "null" -> FALSE
    [] v.k = "undefined" -> FALSE
    [] v.k = "number" -> ~v.nan /\ v.n # 0
    [] v.k = "string" -> v.iso \/ v.text # ""
    [] OTHER -> TRUE

\* isNaN(date.getTime())
IsInvalidDate(d) == ~d.valid

IsValidDate(v) == v.k = "Date" /\ v.valid

\* Number(v) as used by Math.max / Math.min and by relational operators
ToNumber(v) ==
  CASE v.k = "number" -> v
    [] v.k = "Date" -> IF v.valid THEN Num(v.ms) ELSE NaN
    [] v.k = "null" -> Num(0)
    [] v.k = "string" -> IF ~v.iso /\ v.text = "" THEN Num(0) ELSE NaN
    [] OTHER -> NaN

\* a <= b on two JavaScript values (false when either side is NaN)
JsLeq(a, b) ==
  LET x == ToNumber(a)  y == ToNumber(b)
  IN ~x.nan /\ ~y.nan /\ x.n <= y.n

\* Math.max(a, b) and Math.min(a, b): NaN when either argument is NaN
MathMax(a, b) ==
  LET x == ToNumber(a)  y == ToNumber(b)
  IN IF x.nan \/ y.nan THEN NaN ELSE IF x.n >= y.n THEN x ELSE y

MathMin(a, b) ==
  LET x == ToNumber(a)  y == ToNumber(b)
  IN IF x.nan \/ y.nan THEN NaN ELSE IF x.n <= y.n THEN x ELSE y

\* a || b
JsOr(a, b) == IF Truthy(a) THEN a ELSE b


\* ------------------------------------------------------------------------
\* Instants and inputs the operations are called with
\* ------------------------------------------------------------------------
\* the instant at which the process starts
T0 == 10 * DAY + 7
D1 == 3 * DAY + 5
D2 == 5 * DAY
D3 == 9 * DAY + 1

\* an identifier the generator never returns
MissingId == 0
\* the null a view passes to selectProject to deselect; no project has it as id
NullId == -1

NameInputs == {Str("Demo")}
\* names a caller may pass that the views reject
FieldNameInputs == {Str("Demo"), Str("")}
DescriptionInputs == {Str("")}

DefaultTaskName == Str("Nouvelle tache")
NoProjectSelected == "Aucun projet selectionne"

\* ------------------------------------------------------------------------
\* State of the store
\* ------------------------------------------------------------------------
VARIABLES
  projects,        \* state.projects: sequence of projects
  currentProject,  \* state.currentProject: a project or NULL
  loading,         \* state.loading
  error,           \* state.error: NULL or a message
  now,             \* the wall clock read by new Date() / Date.now()
  nextId,          \* the next identifier uuidv4() returns
  slot,            \* the persisted slot 'project-storage'
  last,            \* the last step taken: the operation called and which
                   \* of its cases it took
  pending,         \* the steps of the process start that have not run yet
  api,             \* the API-backed store, its suspended calls and its backend
  gantt            \* the chart view: the tasks it was given and its rows

vars == <<projects, currentProject, loading, error, now, nextId, slot, last, pending, api, gantt>>

\* ------------------------------------------------------------------------
\* Persistence options: serialize / deserialize
\* ------------------------------------------------------------------------
DateFields == {"createdAt", "updatedAt", "startDate", "endDate"}
\* the fields of a project or task that hold a single JavaScript value
ValueFields == {"name", "description", "completion"} \cup DateFields

\* the default the (de)serializer substitutes for an invalid date, by field
DefaultDate(field, t) ==
  IF field = "endDate" THEN DateOf(t + WEEK) ELSE DateOf(t)

\* the recursive step of processForSerialization / convertDates /
\* fixDatesInObject on the value of one key: a truthy value of type
\* 'object' is replaced by the walk of its spread copy { ...obj }, and a
\* Date has no own enumerable property, so its copy is {}
NestedValue(v) ==
  IF v.k \in {"Date", "object"} THEN EmptyObj ELSE v

\* processForSerialization on one date field: an invalid Date is replaced
SerializeDateField(field, v, t) ==
  IF v.k = "Date" /\ IsInvalidDate(v) THEN DefaultDate(field, t) ELSE v

\* processForSerialization on one object (a project or a task) whose
\* arrays are walked by the caller
ProcessObject(obj, t) ==
  [f \in DOMAIN obj |->
     IF f \in DateFields THEN NestedValue(SerializeDateField(f, obj[f], t))
     ELSE IF f \in ValueFields THEN NestedValue(obj[f])
     ELSE obj[f]]

ProcessTask(task, t) == ProcessObject(task, t)

ProcessProject(p, t) ==
  [ProcessObject(p, t) EXCEPT
     !.tasks = [i \in DOMAIN p.tasks |-> ProcessTask(p.tasks[i], t)]]

\* processForSerialization on the partialized state
ProcessForSerialization(state, t) ==
  [projects |-> [i \in DOMAIN state.projects |-> ProcessProject(state.projects[i], t)],
   currentProject |-> IF state.currentProject = NULL THEN NULL
                      ELSE ProcessProject(state.currentProject, t)]

\* JSON.stringify followed by JSON.parse on one value: a Date is written by
\* toJSON as its ISO text, NaN as null, undefined is left out (read back as
\* undefined)
JsonValue(v) ==
  CASE v.k = "Date" -> IF v.valid THEN ToISOString(v.ms) ELSE NULL
    [] v.k = "number" -> IF v.nan THEN NULL ELSE v
    [] OTHER -> v

JsonObject(obj) ==
  [f \in DOMAIN obj |-> IF f \in ValueFields THEN JsonValue(obj[f]) ELSE obj[f]]

JsonProject(p) ==
  [JsonObject(p) EXCEPT !.tasks = [i \in DOMAIN p.tasks |-> JsonObject(p.tasks[i])]]

JsonState(state) ==
  [projects |-> [i \in DOMAIN state.projects |-> JsonProject(state.projects[i])],
   currentProject |-> IF state.currentProject = NULL THEN NULL
                      ELSE JsonProject(state.currentProject)]

\* a stored string: JSON text (held as the tree it parses to) or text that
\* JSON.parse rejects
JsonText(tree) == [k |-> "json", v |-> tree]
Malformed == [k |-> "malformed"]
\* localStorage.getItem returns null: nothing was stored yet
NoItem == [k |-> "none"]

EmptyState == [projects |-> <<>>, currentProject |-> NULL]

\* partialize
Partialize(ps, cp) == [projects |-> ps, currentProject |-> cp]

\* serialize(state)
Serialize(state, t) == JsonText(JsonState(ProcessForSerialization(state, t)))

\* convertDates on one date field: a non-empty string becomes its Date, or
\* the default of the field when it does not parse
ConvertDateField(field, v, t) ==
  IF Truthy(v) /\ v.k = "string"
    THEN LET date == NewDate(v)
         IN IF ~IsInvalidDate(date) THEN date ELSE DefaultDate(field, t)
    ELSE v

\* convertDates, "Additional validation for task dates"
ConvertOrder(obj) ==
  IF "startDate" \in DOMAIN obj /\ "endDate" \in DOMAIN obj
     /\ Truthy(obj.startDate) /\ Truthy(obj.endDate)
    THEN LET startDate == IF obj.startDate.k = "Date" THEN obj.startDate
                          ELSE NewDate(obj.startDate)
             endDate == IF obj.endDate.k = "Date" THEN obj.endDate
                        ELSE NewDate(obj.endDate)
         IN IF JsLeq(endDate, startDate)
              THEN [obj EXCEPT !.endDate = DateOf(startDate.ms + DAY)]
              ELSE obj
    ELSE obj

\* convertDates on one object (a project or a task) whose arrays are
\* walked by the caller
ConvertObject(obj, t) ==
  LET converted == [f \in DOMAIN obj |->
                      IF f \in DateFields THEN ConvertDateField(f, obj[f], t)
                      ELSE obj[f]]
      ordered == ConvertOrder(converted)
  IN [f \in DOMAIN obj |->
        IF f \in ValueFields THEN NestedValue(ordered[f]) ELSE ordered[f]]

ConvertProject(p, t) ==
  [ConvertObject(p, t) EXCEPT
     !.tasks = [i \in DOMAIN p.tasks |-> ConvertObject(p.tasks[i], t)]]

ConvertDates(parsed, t) ==
  [projects |-> [i \in DOMAIN parsed.projects |-> ConvertProject(parsed.projects[i], t)],
   currentProject |-> IF parsed.currentProject = NULL THEN NULL
                      ELSE ConvertProject(parsed.currentProject, t)]

\* deserialize without its try / catch: the SyntaxError of JSON.parse escapes
DeserializeUncaught(str, t) ==
  IF str.k = "json"
    THEN [threw |-> FALSE, value |-> ConvertDates(str.v, t)]
    ELSE [threw |-> TRUE, value |-> EmptyState]

\* deserialize(str): threw tells whether an exception leaves the function
Deserialize(str, t) ==
  IF str.k = "json"
    THEN [threw |-> FALSE, value |-> ConvertDates(str.v, t)]
    ELSE [threw |-> FALSE, value |-> EmptyState]

\* ------------------------------------------------------------------------
\* Helpers of the store operations
\* ------------------------------------------------------------------------
Range(f) == {f[i] : i \in DOMAIN f}

\* array.filter(keep)
Filter(seq, keep(_)) == SelectSeq(seq, keep)

\* { ...obj, ...updates }
Spread(obj, updates) ==
  [f \in DOMAIN obj \cup DOMAIN updates |->
     IF f \in DOMAIN updates THEN updates[f] ELSE obj[f]]

\* delete obj[field]
DeleteKey(obj, field) == [f \in DOMAIN obj \ {field} |-> obj[f]]

\* state.projects.map(p => p.id === updatedProject.id ? updatedProject : p)
MirrorProject(ps, updatedProject) ==
  [i \in DOMAIN ps |-> IF ps[i].id = updatedProject.id THEN updatedProject ELSE ps[i]]

\* `Échec de ...: ${err.message}`
ErrorMessage(prefix, message) == Str(prefix \o ": " \o message)

\* set(...) of the four state fields; the persist middleware then writes the
\* partialized state to the slot
SetState(ps, cp, ld, err) ==
  /\ projects' = ps
  /\ currentProject' = cp
  /\ loading' = ld
  /\ error' = err
  /\ slot' = Serialize(Partialize(ps, cp), now)

\* a catch block that swallows the error
CatchSilently(prefix, message) ==
  SetState(projects, currentProject, FALSE, NULL)

\* the catch block of an operation: set({ error, loading: false }); throw err
Catch(prefix, message) ==
  SetState(projects, currentProject, FALSE, ErrorMessage(prefix, message))

\* if (!currentProject) throw new Error('Aucun projet sélectionné')
RequiresCurrentProject == currentProject = NULL

Record(op, outcome) ==
  last' = [op |-> op, outcome |-> outcome]

HasProject(ps, projectId) == \E i \in DOMAIN ps : ps[i].id = projectId
HasTask(tasks, taskId) == \E i \in DOMAIN tasks : tasks[i].id = taskId
\* some task other than taskId holds a dependency on dependencyTaskId
Referenced(tasks, taskId, dependencyTaskId) ==
  \E i \in DOMAIN tasks :
     /\ tasks[i].id # taskId
     /\ \E j \in DOMAIN tasks[i].dependencies :
           tasks[i].dependencies[j].taskId = dependencyTaskId

\* the operations declared async
AsyncOps ==
  {"createProject", "updateProject", "deleteProject", "createTask", "updateTask",
   "deleteTask", "addDependency", "removeDependency"}

\* the first statement of an async operation, set({ loading: true, error:
\* null }), which the subscribers of the store observe before the rest of
\* the call
Begin(op) ==
  /\ op = "createProject" => nextId <= MaxIds
  /\ (op = "createTask" /\ currentProject # NULL) => nextId <= MaxIds
  /\ SetState(projects, currentProject, TRUE, NULL)
  /\ Record(op, "begun")
  /\ UNCHANGED <<now, nextId, pending, api, gantt>>

\* the call of op has run its first statement and not the rest
InFlight(op) == last = [op |-> op, outcome |-> "begun"]
\* no call is in progress
Idle == last.outcome # "begun"

\* ------------------------------------------------------------------------
\* Project operations
\* ------------------------------------------------------------------------
\* the two string arguments taken in the wrong order
NewProjectSwapped(id, name, description, t) ==
  [id |-> id, name |-> description, description |-> name, tasks |-> <<>>,
   createdAt |-> DateOf(t), updatedAt |-> DateOf(t)]

NewProject(id, name, description, t) ==
  [id |-> id, name |-> name, description |-> description, tasks |-> <<>>,
   createdAt |-> DateOf(t), updatedAt |-> DateOf(t)]

CreateProject(name, description) ==
  /\ nextId <= MaxIds
  /\ LET newProject == NewProject(nextId, name, description, now)
     IN SetState(Append(projects, newProject), newProject, FALSE, NULL)
  /\ nextId' = nextId + 1
  /\ Record("createProject", "created")
  /\ UNCHANGED <<now, pending, api, gantt>>

DeleteProjectFilter(ps, projectId) == Filter(ps, LAMBDA p : p.id # projectId)

\* the current project kept when it is the one deleted
DeleteProjectCurrentKept(cp, projectId) == cp

DeleteProjectCurrent(cp, projectId) ==
  IF cp # NULL /\ cp.id = projectId THEN NULL ELSE cp

DeleteProject(projectId) ==
  /\ SetState(DeleteProjectFilter(projects, projectId),
              DeleteProjectCurrent(currentProject, projectId), FALSE, NULL)
  /\ Record("deleteProject",
            IF ~HasProject(projects, projectId) THEN "notFound"
            ELSE IF currentProject # NULL /\ currentProject.id = projectId
              THEN "removedCurrent" ELSE "removedOther")
  /\ UNCHANGED <<now, nextId, pending, api, gantt>>

\* selectProject without its "if (!project) throw": find's undefined is stored
SelectProjectUnchecked(projectId) ==
  /\ IF \E i \in DOMAIN projects : projects[i].id = projectId
       THEN LET i == CHOOSE j \in DOMAIN projects : projects[j].id = projectId
            IN /\ SetState(projects, projects[i], loading, NULL)
               /\ Record("selectProject", "selected")
       ELSE /\ SetState(projects, UNDEF, loading, NULL)
            /\ Record("selectProject", "notFound")
  /\ UNCHANGED <<now, nextId, pending, api, gantt>>

SelectProject(projectId) ==
  /\ IF \E i \in DOMAIN projects : projects[i].id = projectId
       THEN LET i == CHOOSE j \in DOMAIN projects :
                       /\ projects[j].id = projectId
                       /\ \A h \in 1..(j - 1) : projects[h].id # projectId
            IN /\ SetState(projects, projects[i], loading, NULL)
               /\ Record("selectProject", "selected")
       ELSE /\ SetState(projects, currentProject, loading,
                        ErrorMessage("Echec de selection du projet", "Projet non trouve"))
            /\ Record("selectProject", "notFound")
  /\ UNCHANGED <<now, nextId, pending, api, gantt>>

ClearError ==
  /\ SetState(projects, currentProject, loading, NULL)
  /\ Record("clearError", "done")
  /\ UNCHANGED <<now, nextId, pending, api, gantt>>

\* the wall clock advances between two operations
Tick ==
  /\ now < T0 + MaxTicks
  /\ now' = now + 1
  /\ Record("tick", "done")
  /\ UNCHANGED <<projects, currentProject, loading, error, nextId, slot, pending, api, gantt>>

UpdateProjectIn(ps, projectId, updates, t) ==
  [i \in DOMAIN ps |->
     IF ps[i].id = projectId
       THEN [Spread(ps[i], updates) EXCEPT !.updatedAt = DateOf(t)]
       ELSE ps[i]]

UpdateProject(projectId, updates) ==
  /\ LET updatedProjects == UpdateProjectIn(projects, projectId, updates, now)
         found == {i \in DOMAIN updatedProjects : updatedProjects[i].id = projectId}
     IN SetState(updatedProjects,
                 IF currentProject # NULL /\ currentProject.id = projectId
                   THEN IF found = {} THEN NULL
                        ELSE updatedProjects[CHOOSE i \in found : \A j \in found : i <= j]
                   ELSE currentProject,
                 FALSE, NULL)
  /\ Record("updateProject",
            IF HasProject(projects, projectId) THEN "updated" ELSE "notFound")
  /\ UNCHANGED <<now, nextId, pending, api, gantt>>

\* new Date(2025, month, day) of the demo project: the local midnights of
\* June and July 2025, counted in half days from 31 May 2025 so that every
\* instant of the model stays below 2^31
DemoDate(month, day) == ((month - 5) * 30 + day) * (DAY \div 2)

\* the five tasks of the demo project: name, description, start, end,
\* completion
DemoTasks ==
  <<[name |-> "Analyse des besoins", description |-> "Definir le perimetre",
     startDate |-> DemoDate(5, 1), endDate |-> DemoDate(5, 7), completion |-> 100],
    [name |-> "Conception", description |-> "Concevoir l'architecture",
     startDate |-> DemoDate(5, 8), endDate |-> DemoDate(5, 14), completion |-> 70],
    [name |-> "Developpement", description |-> "Coder les fonctionnalites",
     startDate |-> DemoDate(5, 15), endDate |-> DemoDate(5, 30), completion |-> 30],
    [name |-> "Tests", description |-> "Tester et corriger",
     startDate |-> DemoDate(6, 1), endDate |-> DemoDate(6, 7), completion |-> 0],
    [name |-> "Deploiement", description |-> "Mettre en production",
     startDate |-> DemoDate(6, 8), endDate |-> DemoDate(6, 10), completion |-> 0]>>

\* demoProject: its id is the first uuid drawn, the ids of its tasks the
\* next five; each task but the first depends on the one before it
DemoProject(id, t) ==
  [id |-> id,
   name |-> Str("Projet demo"),
   description |-> Str("Un projet de demonstration"),
   tasks |-> [i \in DOMAIN DemoTasks |->
                [id |-> id + i,
                 name |-> Str(DemoTasks[i].name),
                 description |-> Str(DemoTasks[i].description),
                 startDate |-> DateOf(DemoTasks[i].startDate),
                 endDate |-> DateOf(DemoTasks[i].endDate),
                 completion |-> Num(DemoTasks[i].completion),
                 dependencies |-> IF i = 1 THEN <<>>
                                  ELSE <<[taskId |-> id + i - 1,
                                          type |-> "finish-to-start"]>>,
                 projectId |-> id,
                 createdAt |-> DateOf(t),
                 updatedAt |-> DateOf(t)]],
   createdAt |-> DateOf(t),
   updatedAt |-> DateOf(t)]

LoadDemoProject ==
  /\ nextId <= MaxIds
  /\ LET demoProject == DemoProject(nextId, now)
     IN SetState(Append(projects, demoProject), demoProject, loading, error)
  /\ nextId' = nextId + 1 + Len(DemoTasks)
  /\ Record("loadDemoProject", "loaded")
  /\ UNCHANGED <<now, pending, api, gantt>>

\* ------------------------------------------------------------------------
\* Task operations
\* ------------------------------------------------------------------------
\* createTask, "Convert and validate start date"
ResolveStartDate(input, t) ==
  LET startDate == IF input.k = "Date" THEN input
                   ELSE IF input.k \in {"string", "number"} THEN NewDate(input)
                   ELSE DateOf(t)
  IN IF IsInvalidDate(startDate) THEN DateOf(t) ELSE startDate

\* createTask, "Convert and validate end date"
ResolveEndDate(input, startDate, t) ==
  LET endDate == IF input.k = "Date" THEN input
                 ELSE IF input.k \in {"string", "number"} THEN NewDate(input)
                 ELSE DateOf(t + WEEK)
  IN IF IsInvalidDate(endDate) THEN DateOf(startDate.ms + WEEK) ELSE endDate

\* the comparison taken strictly: equal dates pass
EnsureEndAfterStartStrict(startDate, endDate) ==
  IF JsLeq(endDate, startDate) /\ endDate # startDate
    THEN DateOf(startDate.ms + DAY) ELSE endDate

\* createTask, "Ensure end date is after start date"
EnsureEndAfterStart(startDate, endDate) ==
  IF JsLeq(endDate, startDate) THEN DateOf(startDate.ms + DAY) ELSE endDate

\* Math.min(100, Math.max(0, taskData.completion || 0))
ClampCompletion(input) ==
  MathMin(Num(MaxCompletion), MathMax(Num(MinCompletion), JsOr(input, Num(0))))

NewTask(id, taskData, projectId, t) ==
  LET startDate == ResolveStartDate(taskData.startDate, t)
      endDate == EnsureEndAfterStart(startDate,
                                     ResolveEndDate(taskData.endDate, startDate, t))
  IN [id |-> id,
      name |-> JsOr(taskData.name, DefaultTaskName),
      description |-> JsOr(taskData.description, Str("")),
      startDate |-> startDate,
      endDate |-> endDate,
      completion |-> ClampCompletion(taskData.completion),
      dependencies |-> IF taskData.dependencies.k = "array"
                         THEN taskData.dependencies.items ELSE <<>>,
      projectId |-> projectId,
      createdAt |-> DateOf(t),
      updatedAt |-> DateOf(t)]

\* the final set(...) without its "loading: false"
SetTasksBusy(updatedTasks) ==
  LET updatedProject == [currentProject EXCEPT !.tasks = updatedTasks,
                                               !.updatedAt = DateOf(now)]
  IN SetState(MirrorProject(projects, updatedProject), updatedProject, loading, NULL)

\* the project rebuilt with new tasks, mirrored into projects
SetTasks(updatedTasks) ==
  LET updatedProject == [currentProject EXCEPT !.tasks = updatedTasks,
                                               !.updatedAt = DateOf(now)]
  IN SetState(MirrorProject(projects, updatedProject), updatedProject, FALSE, NULL)

CreateTask(taskData) ==
  /\ IF RequiresCurrentProject
       THEN /\ Catch("Echec de creation de la tache", NoProjectSelected)
            /\ Record("createTask", "threw")
            /\ UNCHANGED nextId
       ELSE /\ nextId <= MaxIds
            /\ SetTasks(Append(currentProject.tasks,
                               NewTask(nextId, taskData, currentProject.id, now)))
            /\ nextId' = nextId + 1
            /\ Record("createTask", "created")
  /\ UNCHANGED <<now, pending, api, gantt>>

\* updateTask, "Process date fields in updates if they exist"
ProcessDateUpdate(processedUpdates, field) ==
  IF field \in DOMAIN processedUpdates /\ Truthy(processedUpdates[field])
    THEN LET date == NewDate(processedUpdates[field])
         IN IF IsInvalidDate(date) THEN DeleteKey(processedUpdates, field)
            ELSE [processedUpdates EXCEPT ![field] = date]
    ELSE processedUpdates

ProcessUpdates(updates) ==
  ProcessDateUpdate(ProcessDateUpdate(updates, "startDate"), "endDate")

UpdateTaskIn(tasks, taskId, processedUpdates, t) ==
  [i \in DOMAIN tasks |->
     IF tasks[i].id = taskId
       THEN [Spread(tasks[i], processedUpdates) EXCEPT !.updatedAt = DateOf(t)]
       ELSE tasks[i]]

UpdateTask(taskId, updates) ==
  /\ IF RequiresCurrentProject
       THEN Catch("Echec de mise a jour de la tache", NoProjectSelected)
       ELSE SetTasks(UpdateTaskIn(currentProject.tasks, taskId,
                                  ProcessUpdates(updates), now))
  /\ Record("updateTask",
            IF RequiresCurrentProject THEN "threw"
            ELSE IF HasTask(currentProject.tasks, taskId) THEN "updated"
            ELSE "notFound")
  /\ UNCHANGED <<now, nextId, pending, api, gantt>>

\* the deleted task removed without the cleanup of the others
CleanDependenciesSkipped(tasks, taskId) == tasks

\* deleteTask, "Nettoie également les dépendances"
CleanDependencies(tasks, taskId) ==
  [i \in DOMAIN tasks |->
     [tasks[i] EXCEPT !.dependencies = Filter(@, LAMBDA dep : dep.taskId # taskId)]]

DeleteTaskIn(tasks, taskId) ==
  CleanDependencies(Filter(tasks, LAMBDA task : task.id # taskId), taskId)

DeleteTask(taskId) ==
  /\ IF RequiresCurrentProject
       THEN Catch("Echec de suppression de la tache", NoProjectSelected)
       ELSE SetTasks(DeleteTaskIn(currentProject.tasks, taskId))
  /\ Record("deleteTask",
            IF RequiresCurrentProject THEN "threw"
            ELSE IF ~HasTask(currentProject.tasks, taskId) THEN "notFound"
            ELSE IF Referenced(currentProject.tasks, taskId, taskId) THEN "stripped"
            ELSE "removed")
  /\ UNCHANGED <<now, nextId, pending, api, gantt>>

\* the duplicate found by taskId alone
ExistingDepByTaskId(task, dependency) ==
  \E i \in DOMAIN task.dependencies :
     task.dependencies[i].taskId = dependency.taskId

\* addDependency, "Vérifie que la dépendance n'existe pas déjà"
ExistingDep(task, dependency) ==
  \E i \in DOMAIN task.dependencies :
     /\ task.dependencies[i].taskId = dependency.taskId
     /\ task.dependencies[i].type = dependency.type

AddDependencyIn(tasks, taskId, dependency, t) ==
  [i \in DOMAIN tasks |->
     IF tasks[i].id # taskId THEN tasks[i]
     ELSE IF ExistingDep(tasks[i], dependency) THEN tasks[i]
     ELSE [tasks[i] EXCEPT !.dependencies = Append(@, dependency),
                           !.updatedAt = DateOf(t)]]

AddDependency(taskId, dependency) ==
  /\ IF RequiresCurrentProject
       THEN Catch("Echec d'ajout de dependance", NoProjectSelected)
       ELSE SetTasks(AddDependencyIn(currentProject.tasks, taskId, dependency, now))
  /\ Record("addDependency",
            IF RequiresCurrentProject THEN "threw"
            ELSE IF ~HasTask(currentProject.tasks, taskId) THEN "notFound"
            ELSE IF \E i \in DOMAIN currentProject.tasks :
                      /\ currentProject.tasks[i].id = taskId
                      /\ ExistingDep(currentProject.tasks[i], dependency)
              THEN "duplicate"
            ELSE "appended")
  /\ UNCHANGED <<now, nextId, pending, api, gantt>>

\* the entries on dependencyTaskId taken out of every task
RemoveDependencyEverywhere(tasks, taskId, dependencyTaskId, t) ==
  [i \in DOMAIN tasks |->
     [tasks[i] EXCEPT
        !.dependencies = Filter(@, LAMBDA dep : dep.taskId # dependencyTaskId),
        !.updatedAt = IF tasks[i].id = taskId THEN DateOf(t) ELSE @]]

RemoveDependencyIn(tasks, taskId, dependencyTaskId, t) ==
  [i \in DOMAIN tasks |->
     IF tasks[i].id # taskId THEN tasks[i]
     ELSE [tasks[i] EXCEPT
             !.dependencies = Filter(@, LAMBDA dep : dep.taskId # dependencyTaskId),
             !.updatedAt = DateOf(t)]]

RemoveDependency(taskId, dependencyTaskId) ==
  /\ IF RequiresCurrentProject
       THEN Catch("Echec de suppression de dependance", NoProjectSelected)
       ELSE SetTasks(RemoveDependencyIn(currentProject.tasks, taskId,
                                        dependencyTaskId, now))
  /\ Record("removeDependency",
            IF RequiresCurrentProject THEN "threw"
            ELSE IF ~HasTask(currentProject.tasks, taskId) THEN "notFound"
            ELSE IF \E i \in DOMAIN currentProject.tasks :
                      /\ currentProject.tasks[i].id = taskId
                      /\ \E j \in DOMAIN currentProject.tasks[i].dependencies :
                            currentProject.tasks[i].dependencies[j].taskId = dependencyTaskId
              THEN "removed"
            ELSE "absent")
  /\ UNCHANGED <<now, nextId, pending, api, gantt>>

\* ------------------------------------------------------------------------
\* Process start: the persist middleware rehydrates the store from the slot
\* ------------------------------------------------------------------------
Hydrate ==
  /\ IF slot = NoItem
       THEN /\ SetState(<<>>, NULL, FALSE, NULL)
            /\ Record("rehydrate", "noItem")
       ELSE LET result == Deserialize(slot, now)
            IN IF result.threw
                 THEN /\ UNCHANGED <<projects, currentProject, loading, error, slot>>
                      /\ Record("rehydrate", "threw")
                 ELSE /\ SetState(result.value.projects, result.value.currentProject,
                                  FALSE, NULL)
                      /\ Record("rehydrate",
                                IF slot = Malformed THEN "fallback" ELSE "loaded")
  /\ UNCHANGED <<now, nextId, api, gantt>>

\* the process is started again
Rehydrate ==
  /\ Hydrate
  /\ UNCHANGED pending

\* the stored text is damaged outside the program
CorruptSlot ==
  /\ slot # Malformed
  /\ slot' = Malformed
  /\ Record("corruptSlot", "done")
  /\ UNCHANGED <<projects, currentProject, loading, error, now, nextId, pending, api, gantt>>

\* ------------------------------------------------------------------------
\* Start of the application (src/unnamed/part_002): the effect of App runs
\* migrateLegacyStorage once the first render is committed; the store module
\* is evaluated, and the slot read by the persist middleware, when the first
\* lazily imported view that uses the store has been fetched.  The code
\* orders neither step before the other.
\* ------------------------------------------------------------------------
\* the test of one object: a non-empty string in one of the fields that
\* new Date() does not parse
FailsDateTest(obj, fields) ==
  \E f \in fields \cap DOMAIN obj :
     /\ Truthy(obj[f])
     /\ obj[f].k = "string"
     /\ IsInvalidDate(NewDate(obj[f]))

\* needsMigration after the loop over parsed.state.projects
NeedsMigration(parsed) ==
  \E i \in DOMAIN parsed.projects :
     \/ FailsDateTest(parsed.projects[i], {"createdAt", "updatedAt"})
     \/ \E j \in DOMAIN parsed.projects[i].tasks :
           FailsDateTest(parsed.projects[i].tasks[j],
                         {"startDate", "endDate", "createdAt", "updatedAt"})

\* the slot as migrateLegacyStorage leaves it
MigratedSlot(str) ==
  IF str = NoItem THEN str
  ELSE IF str.k # "json" THEN NoItem
  ELSE IF NeedsMigration(str.v) THEN NoItem
  ELSE str

MigrateLegacyStorage ==
  /\ "migrateLegacyStorage" \in pending
  /\ slot' = MigratedSlot(slot)
  /\ pending' = pending \ {"migrateLegacyStorage"}
  /\ Record("migrateLegacyStorage",
            IF slot = NoItem THEN "noItem"
            ELSE IF MigratedSlot(slot) = NoItem THEN "removed" ELSE "kept")
  /\ UNCHANGED <<projects, currentProject, loading, error, now, nextId, api, gantt>>

\* create(persist(...)): the middleware hydrates the store from the slot
CreateStore ==
  /\ "hydrate" \in pending
  /\ Hydrate
  /\ pending' = pending \ {"hydrate"}

\* the views call the store once its module is evaluated
StoreCreated == "hydrate" \notin pending

\* ------------------------------------------------------------------------
\* The API-backed store (src/unnamed/part_001, lines 35-134) and the mock
\* backend it calls (src/core/api/mockData.js).  An async operation runs up
\* to its await, is suspended while the mock request is pending, and
\* continues when the request settles; calls holds the suspended calls.
\* ------------------------------------------------------------------------
\* generateMockData: three projects of 3 + (i % 3) tasks, the task ids
\* counted from the hash of the seed, each task but the first of a project
\* depending on the one before it.  The dates, status and assignees of a
\* task are carried along unread by the store and left out.
GenerateMockData ==
  LET MockTaskCount(i) == 3 + (i % 3)
      MockFirstTaskId(i) ==
        SeedHash + Cardinality({<<h, j>> \in (1..3) \X (1..5) :
                                  h < i /\ j <= MockTaskCount(h)})
  IN
  [i \in 1..3 |->
     [id |-> i,
      name |-> Str("Projet " \o ToString(i)),
      tasks |-> [j \in 1..MockTaskCount(i) |->
                   [id |-> MockFirstTaskId(i) + j - 1,
                    name |-> Str("Tache " \o ToString(j) \o " du Projet " \o ToString(i)),
                    dependencies |-> IF j > 1 THEN <<MockFirstTaskId(i) + j - 2>>
                                     ELSE <<>>,
                    updatedAt |-> UNDEF]],
      updatedAt |-> DateOf(T0)]]

\* initialState, with the slot of the persist middleware and the backend
ApiInitialState ==
  [projects |-> <<>>, currentProjectId |-> NullId, isLoading |-> FALSE,
   error |-> NULL, lastUpdated |-> NULL,
   stored |-> NoItem, calls |-> <<>>, started |-> 0, backend |-> GenerateMockData]

\* set(...) on the store: the persist middleware then writes the
\* partialized state, projects and currentProjectId, to its slot
ApiSet(state) ==
  api' = [state EXCEPT !.stored = [projects |-> state.projects,
                                   currentProjectId |-> state.currentProjectId]]

\* the calls the views make
ApiCalls ==
  {[op |-> "loadProjects"],
   [op |-> "addTask", projectId |-> 1, taskData |-> [name |-> Str("T1")]],
   [op |-> "addTask", projectId |-> MissingId, taskData |-> [name |-> Str("T1")]],
   [op |-> "updateTask", projectId |-> 1, taskId |-> SeedHash,
    updates |-> [name |-> Str("Renamed")]],
   [op |-> "updateTask", projectId |-> 1, taskId |-> MissingId,
    updates |-> [name |-> Str("Renamed")]]}

\* loadProjects, addTask, updateTask up to the await: set({ isLoading: true })
ApiStart(call) ==
  /\ api.started < MaxCalls
  /\ ApiSet([api EXCEPT !.isLoading = TRUE,
                        !.calls = Append(@, call),
                        !.started = @ + 1])
  /\ Record(call.op, "awaiting")
  /\ UNCHANGED <<projects, currentProject, loading, error, now, nextId, slot, pending, gantt>>

\* mockProjects.loadAll / addTask / updateTask once the delay has passed:
\* the error thrown, or the value returned with the backend as it is left
MockRequest(backend, call, serverError, t) ==
  LET found == {i \in DOMAIN backend : backend[i].id = call.projectId}
      idx == CHOOSE i \in found : \A h \in found : i <= h
      project == backend[idx]
      hit == {j \in DOMAIN project.tasks : project.tasks[j].id = call.taskId}
      pos == CHOOSE j \in hit : \A h \in hit : j <= h
      failure(message) == [threw |-> TRUE, message |-> Str(message), backend |-> backend]
      success(p) ==
        [threw |-> FALSE, value |-> p, backend |-> [backend EXCEPT ![idx] = p]]
  IN IF serverError THEN failure("Erreur simulee du serveur")
     ELSE IF call.op = "loadProjects"
       THEN [threw |-> FALSE, value |-> backend, backend |-> backend]
     ELSE IF found = {} THEN failure("Projet non trouve")
     ELSE IF call.op = "addTask"
       THEN success([project EXCEPT
                       !.tasks = Append(@, [id |-> t, name |-> call.taskData.name,
                                            dependencies |-> <<>>,
                                            updatedAt |-> DateOf(t)]),
                       !.updatedAt = DateOf(t)])
     ELSE IF hit = {} THEN failure("Tache non trouvee")
     ELSE success([project EXCEPT
                     !.tasks[pos] = [Spread(@, call.updates) EXCEPT
                                       !.updatedAt = DateOf(t)],
                     !.updatedAt = DateOf(t)])

\* the rest of the i-th suspended call, from the settling of its request to
\* the end of its try or catch block
ApiSettle(i, serverError) ==
  /\ i \in DOMAIN api.calls
  /\ LET call == api.calls[i]
         result == MockRequest(api.backend, call, serverError, now)
         \* the suspended calls without the i-th
         others == [h \in 1..(Len(api.calls) - 1) |->
                      IF h < i THEN api.calls[h] ELSE api.calls[h + 1]]
         rest == [api EXCEPT !.calls = others, !.backend = result.backend]
         \* findIndex and the assignment to state.projects[projectIndex]
         ApiReplaceProject(ps, projectId, updatedProject) ==
           LET found == {h \in DOMAIN ps : ps[h].id = projectId}
           IN IF found = {} THEN ps
              ELSE [ps EXCEPT ![CHOOSE h \in found : \A g \in found : h <= g] =
                                  updatedProject]
     IN /\ ApiSet(IF result.threw
                    THEN [rest EXCEPT !.error = result.message, !.isLoading = FALSE]
                  ELSE IF call.op = "loadProjects"
                    THEN [rest EXCEPT !.projects = result.value,
                                      !.isLoading = FALSE,
                                      !.lastUpdated = ToISOString(now)]
                  ELSE [rest EXCEPT
                          !.projects = ApiReplaceProject(@, call.projectId, result.value),
                          !.isLoading = FALSE,
                          !.lastUpdated = ToISOString(now)])
        /\ Record(call.op, IF result.threw THEN "threw" ELSE "resolved")
  /\ UNCHANGED <<projects, currentProject, loading, error, now, nextId, slot, pending, gantt>>

\* setCurrentProject(projectId)
ApiSetCurrentProject(projectId) ==
  /\ ApiSet([api EXCEPT !.currentProjectId = projectId])
  /\ Record("setCurrentProject", "done")
  /\ UNCHANGED <<projects, currentProject, loading, error, now, nextId, slot, pending, gantt>>

\* reset: set(initialState)
ApiReset ==
  /\ ApiSet([api EXCEPT !.projects = ApiInitialState.projects,
                        !.currentProjectId = ApiInitialState.currentProjectId,
                        !.isLoading = ApiInitialState.isLoading,
                        !.error = ApiInitialState.error,
                        !.lastUpdated = ApiInitialState.lastUpdated])
  /\ Record("reset", "done")
  /\ UNCHANGED <<projects, currentProject, loading, error, now, nextId, slot, pending, gantt>>

\* ------------------------------------------------------------------------
\* The formatter of the Gantt view (src/modules/gantt/utils/ganttFormatter.js)
\* ------------------------------------------------------------------------
\* String.prototype.trim on the texts given as dates
Trim(v) == IF ~v.iso /\ v.text = " " THEN Str("") ELSE v

\* safeDate(dateInput), new Date() read at the instant t
SafeDate(dateInput, t) ==
  LET fallback == DateOf(t)
      parsed == NewDate(IF dateInput.k = "string" THEN Trim(dateInput) ELSE dateInput)
  IN IF dateInput \in {NULL, UNDEF, Str("")} THEN fallback
     ELSE IF dateInput.k = "Date"
       THEN IF IsInvalidDate(dateInput) THEN fallback ELSE DateOf(dateInput.ms)
     ELSE IF dateInput.k = "string" /\ Trim(dateInput) = Str("") THEN fallback
     ELSE IF dateInput.k = "number" /\ dateInput.nan THEN fallback
     ELSE IF IsInvalidDate(parsed) THEN fallback
     ELSE parsed

\* String(value) of an id
JsString(v) == IF v.k = "number" THEN Str(ToString(v.n)) ELSE v

\* validDeps.join(',')
RECURSIVE JoinTexts(_)
JoinTexts(ids) ==
  IF Len(ids) = 1 THEN ids[1].text
  ELSE ids[1].text \o "," \o JoinTexts(Tail(ids))

\* formatDependencies(dependencies)
FormatDependencies(dependencies) ==
  IF dependencies.k # "array" \/ dependencies.items = <<>> THEN NULL
  ELSE LET validDeps ==
             Filter(dependencies.items,
                    LAMBDA dep : Truthy(dep.taskId) /\ dep.taskId.k = "string")
       IN IF validDeps = <<>> THEN NULL
          ELSE Str(JoinTexts([i \in DOMAIN validDeps |-> validDeps[i].taskId]))

\* getGanttColumns()
GetGanttColumns ==
  <<"Task ID", "Task Name", "Resource", "Start Date", "End Date", "Duration",
    "Percent Complete", "Dependencies">>

\* the row with the task's own values in the two date columns
FormattedTaskRaw(task, startDate, endDate) ==
  <<JsString(task.id), JsOr(task.name, Str("Unnamed Task")),
    JsOr(task.description, Str("")), task.startDate, task.endDate, NULL,
    ClampCompletion(task.completion), FormatDependencies(task.dependencies)>>

\* formattedTask
FormattedTask(task, startDate, endDate) ==
  <<JsString(task.id), JsOr(task.name, Str("Unnamed Task")),
    JsOr(task.description, Str("")), startDate, endDate, NULL,
    ClampCompletion(task.completion), FormatDependencies(task.dependencies)>>

\* the row returned by the catch block of one task
FallbackTask(task, t) ==
  <<JsOr(task.id, Str("error")), JsOr(task.name, Str("Error Task")), Str(""),
    DateOf(t), DateOf(t + DAY), NULL, Num(0), NULL>>

\* the callback of tasks.map: the row of one task, or the empty tuple for
\* its null; the clock reads t when safeDate treats startDate and t + later
\* when it treats endDate
FormatTask(task, t, later) ==
  IF ~Truthy(task.id) THEN <<>>
  ELSE LET startDate == SafeDate(task.startDate, t)
           safeEnd == SafeDate(task.endDate, t + later)
           endDate == IF JsLeq(safeEnd, startDate) THEN DateOf(startDate.ms + DAY)
                      ELSE safeEnd
       IN IF IsInvalidDate(startDate) \/ IsInvalidDate(endDate)
             \/ JsLeq(endDate, startDate)
            THEN FallbackTask(task, t + later)
            ELSE FormattedTask(task, startDate, endDate)

\* formatGanttData(tasks)
FormatGanttData(tasks, t, later) ==
  LET \* task && typeof task === 'object': a task record, not null or a primitive
      IsObject(v) ==
        "k" \notin DOMAIN v \/ v.k \notin {"null", "undefined", "number", "string"}
  IN
  IF tasks.k # "array" THEN <<>>
  ELSE IF \E i \in DOMAIN tasks.items : ~IsObject(tasks.items[i]) THEN <<>>
  ELSE Filter([i \in DOMAIN tasks.items |-> FormatTask(tasks.items[i], t, later)],
              LAMBDA row : row # <<>>)

\* the checks validateGanttData makes on one row
ValidRow(row, columnCount) ==
  /\ Len(row) = columnCount
  /\ Truthy(row[1])
  /\ Truthy(row[4]) /\ row[4].k = "Date"
  /\ Truthy(row[5]) /\ row[5].k = "Date"
  /\ ~JsLeq(row[5], row[4])

\* validateGanttData(data), data the header row followed by the task rows
ValidateGanttData(headers, rows) ==
  /\ Len(headers) >= 4
  /\ \A i \in DOMAIN rows : ValidRow(rows[i], Len(headers))

\* the chart before formatGanttData has run on its tasks
NoChart == [tasks |-> NULL, formatted |-> FALSE, rows |-> <<>>]

\* the chart view formats the tasks it was given
RenderChart(later) ==
  /\ ~gantt.formatted
  /\ gantt' = [gantt EXCEPT !.formatted = TRUE,
                            !.rows = FormatGanttData(gantt.tasks, now, later)]
  /\ Record("formatGanttData", "done")
  /\ UNCHANGED <<projects, currentProject, loading, error, now, nextId, slot, pending, api>>

\* the arrays handed to formatGanttData: one task with each pair of date
\* values, a second task after it, a task without id, an entry that is not
\* an object, and no array at all
GanttTaskArrays ==
  LET \* the values a task may hold as startDate or endDate
      GanttDateInputs ==
        {DateOf(D1), DateOf(D2), InvalidDate, ToISOString(D3), Str("not-a-date"),
         Str(""), Str(" "), Num(D2), NaN, UNDEF, NULL, EmptyObj}
      GanttTask(id, startDate, endDate) ==
        [id |-> id, name |-> Str("T1"), description |-> UNDEF,
         startDate |-> startDate, endDate |-> endDate, completion |-> Num(50),
         dependencies |-> Arr(<<[taskId |-> Str("t0")], [taskId |-> UNDEF]>>)]
  IN
  {Arr(<<GanttTask(Str("t1"), s, e)>>) : s \in GanttDateInputs, e \in GanttDateInputs}
  \cup {Arr(<<GanttTask(Str("t1"), DateOf(D2), DateOf(D1)), GanttTask(id, DateOf(D1), e)>>) :
          id \in {Num(7), UNDEF, Str("")}, e \in {DateOf(D2), UNDEF}}
  \cup {Arr(<<>>), Arr(<<GanttTask(Str("t1"), DateOf(D1), DateOf(D2)), NULL>>), UNDEF}

\* ------------------------------------------------------------------------
\* validateAndFixDates / initializeStore, called once by the timer set when
\* the store module is evaluated
\* ------------------------------------------------------------------------
\* fixDatesInObject on one date field: a truthy value that is not a Date is
\* given to new Date(), and an Invalid Date is replaced by the default of
\* the field
FixDateField(field, v, t) ==
  IF Truthy(v)
    THEN LET date == IF v.k = "Date" THEN v ELSE NewDate(v)
         IN IF IsInvalidDate(date) THEN DefaultDate(field, t) ELSE date
    ELSE v

\* fixDatesInObject, "Ensure task date consistency"
FixOrder(obj) ==
  IF "startDate" \in DOMAIN obj /\ "endDate" \in DOMAIN obj
     /\ Truthy(obj.startDate) /\ Truthy(obj.endDate)
     /\ JsLeq(obj.endDate, obj.startDate)
    THEN [obj EXCEPT !.endDate = DateOf(obj.startDate.ms + DAY)]
    ELSE obj

\* fixDatesInObject on one object (a project or a task) whose arrays are
\* walked by the caller
FixObject(obj, t) ==
  LET fixed == FixOrder([f \in DOMAIN obj |->
                           IF f \in DateFields THEN FixDateField(f, obj[f], t)
                           ELSE obj[f]])
  IN [f \in DOMAIN obj |->
        IF f \in ValueFields THEN NestedValue(fixed[f]) ELSE fixed[f]]

\* validateAndFixDates: set(state => ({ ...state, projects: ..., currentProject: ... }))
ValidateAndFixDates ==
  LET FixProject(p, t) ==
        [FixObject(p, t) EXCEPT
           !.tasks = [i \in DOMAIN p.tasks |-> FixObject(p.tasks[i], t)]]
  IN
  SetState([i \in DOMAIN projects |-> FixProject(projects[i], now)],
           IF currentProject = NULL THEN NULL ELSE FixProject(currentProject, now),
           loading, error)

\* the callback of setTimeout(..., 100): store.initializeStore()
InitializeStore ==
  /\ "initializeStore" \in pending
  /\ StoreCreated
  /\ ValidateAndFixDates
  /\ pending' = pending \ {"initializeStore"}
  /\ Record("initializeStore", "done")
  /\ UNCHANGED <<now, nextId, api, gantt>>

\* ------------------------------------------------------------------------
\* Inputs
\* ------------------------------------------------------------------------
BaseTaskData ==
  [name |-> Str("T1"), description |-> UNDEF, startDate |-> DateOf(D1),
   endDate |-> DateOf(D2), completion |-> Num(50), dependencies |-> UNDEF]

\* dependencies given to addDependency and to createTask
DepInputs ==
  {[taskId |-> 2, type |-> "FINISH_TO_START"],
   [taskId |-> 2, type |-> "START_TO_START"]}
\* the ids removeDependency is asked to remove
DepTargets == {d.taskId : d \in DepInputs}
DependenciesInputs == {Arr(<<[taskId |-> 3, type |-> "FINISH_TO_START"]>>)}

StartInputs == {DateOf(D2), Str("not-a-date"), UNDEF}
EndInputs == {DateOf(D2), DateOf(D1), ToISOString(D3), Str("also-bad"), UNDEF}
CompletionInputs == {UNDEF, Num(-5), Num(150), Str("abc")}

\* ids the callers pass: those of the projects in the store, those of the
\* tasks of the current project, and one that matches nothing
ProjectIds == {projects[i].id : i \in DOMAIN projects} \cup {MissingId}
TaskIds ==
  (IF currentProject = NULL THEN {}
   ELSE {currentProject.tasks[i].id : i \in DOMAIN currentProject.tasks})
  \cup {MissingId}

\* task data that differ in their dependencies
StructTaskInputs ==
  {BaseTaskData} \cup {[BaseTaskData EXCEPT !.dependencies = d] : d \in DependenciesInputs}

\* task data that differ in their dates, completion and name
FieldTaskInputs ==
  {[BaseTaskData EXCEPT !.startDate = s, !.endDate = e] :
      s \in StartInputs, e \in EndInputs}
  \cup {[BaseTaskData EXCEPT !.completion = c] : c \in CompletionInputs}
  \cup {[BaseTaskData EXCEPT !.name = UNDEF]}

StructUpdateInputs == {[name |-> Str("T1")]}

FieldUpdateInputs ==
  {[endDate |-> DateOf(D1)], [startDate |-> DateOf(D3)],
   [endDate |-> Str("bad")], [startDate |-> Str("")],
   [startDate |-> ToISOString(D1), endDate |-> ToISOString(D3)],
   [completion |-> Num(150)], [completion |-> Num(40)]}

ProjectUpdateInputs == {[name |-> Str("Demo")]}

\* what an earlier run left in the slot: a project with one task, their
\* dates written as ISO text
StoredTask == JsonObject(NewTask(2, BaseTaskData, 1, D3))
StoredProject ==
  [JsonObject(NewProject(1, Str("Demo"), Str(""), D3)) EXCEPT !.tasks = <<StoredTask>>]
StoredState == [projects |-> <<StoredProject>>, currentProject |-> StoredProject]

\* the slot at the start: empty, damaged, sound, or with one date field
\* that is not a date
StoredPayloads ==
  {NoItem, Malformed, JsonText(StoredState),
   JsonText([StoredState EXCEPT !.projects[1].createdAt = Str("garbage")]),
   JsonText([StoredState EXCEPT !.projects[1].tasks[1].endDate = Str("garbage")]),
   JsonText([StoredState EXCEPT !.currentProject.updatedAt = Str("garbage")]),
   JsonText([StoredState EXCEPT !.currentProject.tasks[1].startDate = Str("garbage")]),
   JsonText([StoredState EXCEPT !.projects[1].tasks[1].startDate = EmptyObj])}

\* ------------------------------------------------------------------------
\* Specifications
\* ------------------------------------------------------------------------
Init ==
  /\ projects = <<>>
  /\ currentProject = NULL
  /\ loading = FALSE
  /\ error = NULL
  /\ now = T0
  /\ nextId = 1
  /\ slot = NoItem
  /\ last = [op |-> "create", outcome |-> "done"]
  /\ pending = {}
  /\ api = ApiInitialState
  /\ gantt = NoChart

\* every operation of the store, on tasks that differ in their dependencies
Next ==
  \/ \E name \in NameInputs, description \in DescriptionInputs :
       CreateProject(name, description)
  \/ \E projectId \in ProjectIds, updates \in ProjectUpdateInputs :
       UpdateProject(projectId, updates)
  \/ \E projectId \in ProjectIds : DeleteProject(projectId)
  \/ \E projectId \in ProjectIds : SelectProject(projectId)
  \/ \E taskData \in StructTaskInputs : CreateTask(taskData)
  \/ \E taskId \in TaskIds, updates \in StructUpdateInputs : UpdateTask(taskId, updates)
  \/ \E taskId \in TaskIds : DeleteTask(taskId)
  \/ \E taskId \in TaskIds, dependency \in DepInputs : AddDependency(taskId, dependency)
  \/ \E taskId \in TaskIds, dependencyTaskId \in DepTargets :
       RemoveDependency(taskId, dependencyTaskId)
  \/ ClearError

Spec == Init /\ [][Next]_vars

\* the task operations on the only task of the only project, with task data
\* that differ in their dates and completion, while the wall clock advances
FieldNext ==
  \/ \E name \in FieldNameInputs, description \in DescriptionInputs :
       projects = <<>> /\ CreateProject(name, description)
  \/ \E projectId \in ProjectIds, updates \in ProjectUpdateInputs :
       UpdateProject(projectId, updates)
  \/ \E taskData \in FieldTaskInputs :
       (currentProject # NULL => currentProject.tasks = <<>>) /\ CreateTask(taskData)
  \/ \E taskId \in TaskIds, updates \in FieldUpdateInputs : UpdateTask(taskId, updates)
  \/ \E taskId \in TaskIds : DeleteTask(taskId)
  \/ Tick

FieldSpec == Init /\ [][FieldNext]_vars

\* creation and deletion of projects and tasks together with process
\* restarts and a slot damaged between two runs
PersistNext ==
  \/ \E name \in NameInputs, description \in DescriptionInputs :
       CreateProject(name, description)
  \/ \E taskData \in StructTaskInputs : CreateTask(taskData)
  \/ \E taskId \in TaskIds : DeleteTask(taskId)
  \/ \E projectId \in ProjectIds : DeleteProject(projectId)
  \/ Rehydrate
  \/ CorruptSlot
  \/ Tick

PersistSpec == Init /\ [][PersistNext]_vars

\* the start of the application on a slot left by an earlier run, followed
\* by operations of the views
StartupInit ==
  /\ projects = <<>>
  /\ currentProject = NULL
  /\ loading = FALSE
  /\ error = NULL
  /\ now = T0
  /\ nextId = StoredTask.id + 1
  /\ slot \in StoredPayloads
  /\ last = [op |-> "create", outcome |-> "done"]
  /\ pending = {"migrateLegacyStorage", "hydrate"}
  /\ api = ApiInitialState
  /\ gantt = NoChart

StartupNext ==
  \/ MigrateLegacyStorage
  \/ CreateStore
  \/ \E name \in NameInputs, description \in DescriptionInputs :
       StoreCreated /\ CreateProject(name, description)
  \/ \E projectId \in ProjectIds : StoreCreated /\ SelectProject(projectId)
  \/ \E taskData \in StructTaskInputs : StoreCreated /\ CreateTask(taskData)
  \/ \E taskId \in TaskIds : StoreCreated /\ DeleteTask(taskId)
  \/ \E projectId \in ProjectIds : StoreCreated /\ DeleteProject(projectId)

StartupSpec == StartupInit /\ [][StartupNext]_vars

\* every async operation in two steps, its first set(...) and the rest of
\* the call, with the synchronous operations between two calls
StepDepInputs == {[taskId |-> 2, type |-> "FINISH_TO_START"]}

StepNext ==
  \/ \E op \in AsyncOps : Idle /\ Begin(op)
  \/ \E name \in NameInputs, description \in DescriptionInputs :
       InFlight("createProject") /\ CreateProject(name, description)
  \/ \E projectId \in ProjectIds, updates \in ProjectUpdateInputs :
       InFlight("updateProject") /\ UpdateProject(projectId, updates)
  \/ \E projectId \in ProjectIds : InFlight("deleteProject") /\ DeleteProject(projectId)
  \/ InFlight("createTask") /\ CreateTask(BaseTaskData)
  \/ \E taskId \in TaskIds, updates \in StructUpdateInputs :
       InFlight("updateTask") /\ UpdateTask(taskId, updates)
  \/ \E taskId \in TaskIds : InFlight("deleteTask") /\ DeleteTask(taskId)
  \/ \E taskId \in TaskIds, dependency \in StepDepInputs :
       InFlight("addDependency") /\ AddDependency(taskId, dependency)
  \/ \E taskId \in TaskIds, dependencyTaskId \in DepTargets :
       InFlight("removeDependency") /\ RemoveDependency(taskId, dependencyTaskId)
  \/ \E projectId \in ProjectIds : Idle /\ SelectProject(projectId)
  \/ Idle /\ ClearError

StepSpec == Init /\ [][StepNext]_vars

\* projects created by hand and by loadDemoProject, updated, selected and
\* deleted, with tasks created and deleted in the current one; the updates
\* are a new name and an object that carries an id
DemoUpdateInputs == {[name |-> Str("Renamed")], [id |-> 2]}

DemoNext ==
  \/ \E name \in NameInputs, description \in DescriptionInputs :
       CreateProject(name, description)
  \/ LoadDemoProject
  \/ \E projectId \in ProjectIds, updates \in DemoUpdateInputs :
       UpdateProject(projectId, updates)
  \/ \E projectId \in ProjectIds : DeleteProject(projectId)
  \/ \E projectId \in ProjectIds : SelectProject(projectId)
  \/ CreateTask(BaseTaskData)
  \/ \E taskId \in TaskIds : DeleteTask(taskId)
  \/ ClearError

DemoSpec == Init /\ [][DemoNext]_vars

\* updates and task data that carry the fields the store itself sets: an
\* id, a projectId, a dependencies array with the same entry twice
DuplicateDependencies ==
  <<[taskId |-> 2, type |-> "FINISH_TO_START"], [taskId |-> 2, type |-> "FINISH_TO_START"]>>

IdTaskInputs ==
  {BaseTaskData, [BaseTaskData EXCEPT !.dependencies = Arr(DuplicateDependencies)]}

IdUpdateInputs ==
  {[name |-> Str("T1")], [id |-> 2], [projectId |-> MissingId],
   [dependencies |-> DuplicateDependencies]}

\* the ids the task operations are called with here: that of the first task
\* of the current project, and one that matches nothing
HeadTaskIds ==
  (IF currentProject = NULL \/ currentProject.tasks = <<>> THEN {}
   ELSE {currentProject.tasks[1].id})
  \cup {MissingId}

IdNext ==
  \/ \E name \in NameInputs, description \in DescriptionInputs :
       CreateProject(name, description)
  \/ LoadDemoProject
  \/ \E projectId \in ProjectIds, updates \in DemoUpdateInputs :
       UpdateProject(projectId, updates)
  \/ \E projectId \in ProjectIds : SelectProject(projectId)
  \/ \E taskData \in IdTaskInputs : CreateTask(taskData)
  \/ \E taskId \in HeadTaskIds, updates \in IdUpdateInputs : UpdateTask(taskId, updates)
  \/ \E taskId \in HeadTaskIds, dependency \in StepDepInputs :
       AddDependency(taskId, dependency)

IdSpec == Init /\ [][IdNext]_vars

\* the operations that build two projects, link a task of one to a task of
\* the other, and delete
CascadeNext ==
  \/ \E name \in NameInputs, description \in DescriptionInputs :
       CreateProject(name, description)
  \/ CreateTask(BaseTaskData)
  \/ LoadDemoProject
  \/ \E taskId \in HeadTaskIds, dependency \in StepDepInputs :
       AddDependency(taskId, dependency)
  \/ \E projectId \in ProjectIds : SelectProject(projectId)
  \/ \E taskId \in TaskIds : DeleteTask(taskId)
  \/ \E projectId \in ProjectIds : DeleteProject(projectId)

CascadeSpec == Init /\ [][CascadeNext]_vars

\* the operations of the store with the wall clock advancing between them
ClockNext == Next \/ Tick

ClockSpec == Init /\ [][ClockNext]_vars

\* the operations of the store, selectProject(null) among them
DeselectNext == Next \/ SelectProject(NullId)

DeselectSpec == Init /\ [][DeselectNext]_vars

\* the API-backed store: calls started, suspended at their request and
\* settled in any order
ApiNext ==
  \/ \E call \in ApiCalls : ApiStart(call)
  \/ \E i \in DOMAIN api.calls, serverError \in BOOLEAN : ApiSettle(i, serverError)
  \/ \E projectId \in {1, NullId} : ApiSetCurrentProject(projectId)
  \/ ApiReset
  \/ Tick

ApiSpec == Init /\ [][ApiNext]_vars

\* the chart view given one array of tasks
GanttInit ==
  /\ projects = <<>>
  /\ currentProject = NULL
  /\ loading = FALSE
  /\ error = NULL
  /\ now = T0
  /\ nextId = 1
  /\ slot = NoItem
  /\ last = [op |-> "create", outcome |-> "done"]
  /\ pending = {}
  /\ api = ApiInitialState
  /\ gantt \in {[NoChart EXCEPT !.tasks = tasks] : tasks \in GanttTaskArrays}

GanttNext ==
  \/ \E later \in {0, 1} : RenderChart(later)
  \/ Tick

GanttSpec == GanttInit /\ [][GanttNext]_vars

\* the store created on an empty slot, its timer running, and the
\* operations of the views before and after the timer fires
DeferredInit ==
  /\ projects = <<>>
  /\ currentProject = NULL
  /\ loading = FALSE
  /\ error = NULL
  /\ now = T0
  /\ nextId = 1
  /\ slot = NoItem
  /\ last = [op |-> "create", outcome |-> "done"]
  /\ pending = {"initializeStore"}
  /\ api = ApiInitialState
  /\ gantt = NoChart

DeferredNext ==
  \/ InitializeStore
  \/ \E name \in NameInputs, description \in DescriptionInputs :
       projects = <<>> /\ CreateProject(name, description)
  \/ \E taskData \in FieldTaskInputs :
       (currentProject # NULL => currentProject.tasks = <<>>) /\ CreateTask(taskData)
  \/ \E taskId \in TaskIds, updates \in FieldUpdateInputs : UpdateTask(taskId, updates)
  \/ \E taskId \in TaskIds : DeleteTask(taskId)

DeferredSpec == DeferredInit /\ [][DeferredNext]_vars

\* ------------------------------------------------------------------------
\* Properties
\* ------------------------------------------------------------------------
\* every task the store holds, in projects and in currentProject
AllTasks ==
  UNION {Range(projects[i].tasks) : i \in DOMAIN projects}
  \cup (IF currentProject = NULL THEN {} ELSE Range(currentProject.tasks))

\* the number of elements among the first n of seq that Keep keeps
KeptBefore(seq, n, Keep(_)) == Cardinality({h \in 1..n : Keep(seq[h])})

\* after holds exactly the elements of before that Keep keeps, each changed
\* by Change, in the order of before
KeepsInOrder(after, before, Keep(_), Change(_)) ==
  /\ Len(after) = KeptBefore(before, Len(before), Keep)
  /\ \A i \in DOMAIN before :
        Keep(before[i]) => after[KeptBefore(before, i, Keep)] = Change(before[i])

Same(x) == x

\* C1: every task created by createTask or modified by updateTask has two
\* valid dates with endDate strictly later than startDate, whatever raw
\* values were supplied
C1_EndAfterStart ==
  \A task \in AllTasks :
     /\ IsValidDate(task.startDate)
     /\ IsValidDate(task.endDate)
     /\ task.endDate.ms > task.startDate.ms

\* C2: every task's completion is a number between 0 and 100, whatever
\* completion createTask or updateTask was given
C2_CompletionInRange ==
  \A task \in AllTasks :
     /\ task.completion.k = "number"
     /\ ~task.completion.nan
     /\ MinCompletion <= task.completion.n
     /\ task.completion.n <= MaxCompletion

\* what deleteTask(taskId) leaves of one remaining task: the task with its
\* dependency entries on taskId taken out, the others kept in their order
StrippedOf(task, stripped, taskId) ==
  /\ stripped = [task EXCEPT !.dependencies = stripped.dependencies]
  /\ KeepsInOrder(stripped.dependencies, task.dependencies,
                  LAMBDA dep : dep.taskId # taskId, Same)

\* C3: after deleteTask(t) succeeds on the current project, t is no longer
\* among the project's tasks, no remaining task has a dependency entry on t,
\* and the remaining tasks keep their order and all their other entries
C3_DeleteTaskStripsReferences ==
  [][\A taskId \in TaskIds :
       (currentProject # NULL /\ DeleteTask(taskId)) =>
         LET before == currentProject.tasks
             after == currentProject'.tasks
         IN /\ error' = NULL
            /\ \A i \in DOMAIN after : after[i].id # taskId
            /\ \A i \in DOMAIN after : \A j \in DOMAIN after[i].dependencies :
                  after[i].dependencies[j].taskId # taskId
            /\ Len(after) = KeptBefore(before, Len(before), LAMBDA t : t.id # taskId)
            /\ \A i \in DOMAIN before :
                  before[i].id # taskId =>
                    StrippedOf(before[i],
                               after[KeptBefore(before, i, LAMBDA t : t.id # taskId)],
                               taskId)
            /\ \A i \in DOMAIN projects' :
                  projects'[i].id = currentProject.id => projects'[i].tasks = after
    ]_vars

\* a deleteTask that took dependency entries out of a task that keeps others
C3_Witness ==
  /\ last.op = "deleteTask"
  /\ last.outcome = "stripped"
  /\ \E task \in AllTasks : task.dependencies # <<>>

\* C4: addDependency(taskId, d) leaves the dependency list of the task
\* unchanged and records no error when the task already holds an entry with
\* the taskId and type of d; otherwise it appends d as the last entry
C4_AddDependencyIdempotent ==
  [][\A taskId \in TaskIds, d \in DepInputs :
       (currentProject # NULL /\ AddDependency(taskId, d)) =>
         LET before == currentProject.tasks
             after == currentProject'.tasks
         IN /\ error' = NULL
            /\ Len(after) = Len(before)
            /\ \A i \in DOMAIN before :
                  IF before[i].id # taskId
                    THEN after[i] = before[i]
                    ELSE IF \E j \in DOMAIN before[i].dependencies :
                               /\ before[i].dependencies[j].taskId = d.taskId
                               /\ before[i].dependencies[j].type = d.type
                      THEN after[i].dependencies = before[i].dependencies
                      ELSE after[i].dependencies = before[i].dependencies \o <<d>>
    ]_vars

\* a second addDependency of an entry on a task that holds two entries
C4_Witness ==
  /\ last.op = "addDependency"
  /\ last.outcome = "duplicate"
  /\ \E task \in AllTasks : Len(task.dependencies) >= 2

\* the date fields of the state are valid dates, endDate after startDate
ValidDateState ==
  /\ \A i \in DOMAIN projects :
        IsValidDate(projects[i].createdAt) /\ IsValidDate(projects[i].updatedAt)
  /\ currentProject # NULL =>
        IsValidDate(currentProject.createdAt) /\ IsValidDate(currentProject.updatedAt)
  /\ \A task \in AllTasks :
        /\ IsValidDate(task.createdAt) /\ IsValidDate(task.updatedAt)
        /\ IsValidDate(task.startDate) /\ IsValidDate(task.endDate)
        /\ task.endDate.ms > task.startDate.ms

\* C5: for every state whose date fields are valid dates with endDate after
\* startDate, deserialize(serialize(state)) has the same projects, tasks and
\* dependencies with equal field values, every date the same instant
C5_RoundTrip ==
  ValidDateState =>
    LET state == Partialize(projects, currentProject)
        back == Deserialize(Serialize(state, now), now)
    IN ~back.threw /\ back.value = state

\* C6: given a stored payload that is not valid JSON, deserialize raises no
\* exception and returns the empty state
C6_MalformedFallsBack ==
  last.op = "rehydrate" =>
    /\ last.outcome # "threw"
    /\ last.outcome = "fallback" => projects = <<>> /\ currentProject = NULL

\* a process start on a damaged slot after the store held projects
C6_Witness ==
  /\ last.op = "rehydrate"
  /\ last.outcome = "fallback"
  /\ nextId > 1
  /\ projects = <<>>

TaskOps == {"createTask", "updateTask", "deleteTask", "addDependency", "removeDependency"}

\* C7: called while currentProject is null, each of createTask, updateTask,
\* deleteTask, addDependency and removeDependency leaves projects and
\* currentProject unchanged, sets error to a message and ends with loading
\* false
C7_NoProjectSelected ==
  [][(currentProject = NULL /\ last'.op \in TaskOps) =>
       /\ projects' = projects
       /\ currentProject' = NULL
       /\ error' # NULL
       /\ error'.k = "string"
       /\ loading' = FALSE
    ]_vars

\* a task operation refused while the store holds projects, none selected
C7_Witness ==
  /\ last.op \in TaskOps
  /\ last.outcome = "threw"
  /\ currentProject = NULL
  /\ projects # <<>>
  /\ error # NULL

\* C8: createProject with an empty name adds no project, leaves projects and
\* currentProject unchanged and sets error to a message
C8_EmptyNameRejected ==
  [][\A description \in DescriptionInputs :
       CreateProject(Str(""), description) =>
         /\ projects' = projects
         /\ currentProject' = currentProject
         /\ error' # NULL
    ]_vars

\* C9: createProject(name, description) with a non-empty name appends exactly
\* one project as the last element, with the given name, no task and an id
\* no existing project has, leaves the existing projects as they were and
\* makes the new project currentProject
C9_CreateProjectAppends ==
  [][\A name \in NameInputs, description \in DescriptionInputs :
       (name # Str("") /\ CreateProject(name, description)) =>
         /\ Len(projects') = Len(projects) + 1
         /\ SubSeq(projects', 1, Len(projects)) = projects
         /\ LET new == projects'[Len(projects')]
            IN /\ new.name = name
               /\ new.tasks = <<>>
               /\ \A i \in DOMAIN projects : projects[i].id # new.id
               /\ currentProject' = new
    ]_vars

\* a createProject in a store that held projects already
C9_Witness ==
  /\ last.op = "createProject"
  /\ Len(projects) >= 2
  /\ currentProject = projects[Len(projects)]
  /\ currentProject.name # Str("")

\* C10: deleteProject(projectId) removes exactly the project with that id,
\* leaves every other project unchanged and in the same order, and makes
\* currentProject null if it was the deleted project, else leaves it
C10_DeleteProjectFrame ==
  [][\A projectId \in ProjectIds :
       DeleteProject(projectId) =>
         /\ \A i \in DOMAIN projects' : projects'[i].id # projectId
         /\ KeepsInOrder(projects', projects, LAMBDA p : p.id # projectId, Same)
         /\ currentProject' =
              IF currentProject # NULL /\ currentProject.id = projectId
                THEN NULL ELSE currentProject
    ]_vars

\* the current project deleted from among three
C10_Witness ==
  /\ last.op = "deleteProject"
  /\ last.outcome = "removedCurrent"
  /\ currentProject = NULL
  /\ Len(projects) >= 2

\* C11: selectProject(id) with an id that matches no project leaves
\* currentProject and projects unchanged and sets error to a message; with an
\* id that matches a project it sets currentProject to that project and
\* error to null
C11_SelectProject ==
  [][\A projectId \in ProjectIds :
       SelectProject(projectId) =>
         /\ projects' = projects
         /\ IF HasProject(projects, projectId)
              THEN /\ \E i \in DOMAIN projects :
                         projects[i].id = projectId /\ currentProject' = projects[i]
                   /\ error' = NULL
              ELSE /\ currentProject' = currentProject
                   /\ error' # NULL
                   /\ error'.k = "string"
    ]_vars

\* an unknown id selected while a project is current
C11_Witness ==
  /\ last.op = "selectProject"
  /\ last.outcome = "notFound"
  /\ currentProject # NULL
  /\ error # NULL

\* a value that createTask or updateTask converts to a valid date: a valid
\* Date, or a string or number that new Date() parses
ConvertibleDate(v) ==
  /\ v.k \in {"Date", "string", "number"}
  /\ IsValidDate(NewDate(v))

\* C12: createTask with a valid startDate S and a valid endDate E stores
\* startDate = S and, when E <= S, endDate = S + exactly 1 day; when E > S
\* it stores endDate = E unchanged
C12_CreateTaskOrdersDates ==
  [][\A taskData \in FieldTaskInputs :
       (/\ currentProject # NULL
        /\ ConvertibleDate(taskData.startDate)
        /\ ConvertibleDate(taskData.endDate)
        /\ CreateTask(taskData)) =>
         LET task == currentProject'.tasks[Len(currentProject'.tasks)]
             S == NewDate(taskData.startDate)
             E == NewDate(taskData.endDate)
         IN /\ task.startDate = S
            /\ task.endDate = IF E.ms <= S.ms THEN DateOf(S.ms + DAY) ELSE E
    ]_vars

\* a task created with equal dates, its end moved one day after its start
C12_Witness ==
  /\ last.op = "createTask"
  /\ last.outcome = "created"
  /\ \E task \in AllTasks :
        /\ task.startDate = DateOf(D2)
        /\ task.endDate = DateOf(D2 + DAY)

\* C13: createTask called with a missing or unparsable endDate stores
\* endDate = resolved startDate + 7 days, for every startDate input: a valid
\* startDate resolves to itself, a missing or unparsable one to the current
\* time
C13_DefaultEndDate ==
  [][\A taskData \in FieldTaskInputs :
       (/\ currentProject # NULL
        /\ ~ConvertibleDate(taskData.endDate)
        /\ CreateTask(taskData)) =>
         LET task == currentProject'.tasks[Len(currentProject'.tasks)]
             resolved == IF ConvertibleDate(taskData.startDate)
                           THEN NewDate(taskData.startDate) ELSE DateOf(now)
         IN /\ task.startDate = resolved
            /\ task.endDate = DateOf(resolved.ms + WEEK)
    ]_vars

\* C14: updateTask(taskId, updates): for each of startDate and endDate
\* present in updates with a value that cannot be converted to a valid date,
\* the task keeps its previous value of that field, the other fields of
\* updates are still applied and no error is recorded, so the dates of the
\* task stay valid dates
C14_UpdateDropsBadDates ==
  [][\A taskId \in TaskIds, updates \in FieldUpdateInputs :
       (currentProject # NULL /\ UpdateTask(taskId, updates)) =>
         LET before == currentProject.tasks
             after == currentProject'.tasks
         IN /\ error' = NULL
            /\ Len(after) = Len(before)
            /\ \A i \in DOMAIN before :
                  before[i].id = taskId =>
                    \A f \in DOMAIN updates :
                       IF f \in {"startDate", "endDate"}
                         THEN IF ConvertibleDate(updates[f])
                                THEN after[i][f] = NewDate(updates[f])
                                ELSE after[i][f] = before[i][f]
                         ELSE after[i][f] = updates[f]
    ]_vars

\* C18: removeDependency(taskId, dependencyTaskId) removes from the task
\* taskId every dependency entry whose taskId field equals dependencyTaskId,
\* of whatever type, keeps that task's other entries in their order, and
\* leaves the dependencies of every other task unchanged
C18_RemoveDependency ==
  [][\A taskId \in TaskIds, dependencyTaskId \in DepTargets :
       (currentProject # NULL /\ RemoveDependency(taskId, dependencyTaskId)) =>
         LET before == currentProject.tasks
             after == currentProject'.tasks
         IN /\ Len(after) = Len(before)
            /\ \A i \in DOMAIN before :
                  IF before[i].id = taskId
                    THEN /\ \A j \in DOMAIN after[i].dependencies :
                               after[i].dependencies[j].taskId # dependencyTaskId
                         /\ KeepsInOrder(after[i].dependencies, before[i].dependencies,
                                         LAMBDA dep : dep.taskId # dependencyTaskId, Same)
                    ELSE after[i].dependencies = before[i].dependencies
    ]_vars

\* entries taken out of a task that keeps another entry, while another task
\* still holds its own
C18_Witness ==
  /\ last.op = "removeDependency"
  /\ last.outcome = "removed"
  /\ \E a, b \in AllTasks :
        /\ a.id # b.id
        /\ a.dependencies # <<>>
        /\ b.dependencies # <<>>

\* a stored value that new Date() turns into a valid date
ParsesToDate(v) == IsValidDate(NewDate(v))

\* one of the date fields of a stored project or of one of its tasks does
\* not parse
ProjectDateFails(p) ==
  \/ \E f \in {"createdAt", "updatedAt"} : ~ParsesToDate(p[f])
  \/ \E j \in DOMAIN p.tasks :
        \E f \in {"startDate", "endDate", "createdAt", "updatedAt"} :
           ~ParsesToDate(p.tasks[j][f])

AnyDateFails(state) ==
  \/ \E i \in DOMAIN state.projects : ProjectDateFails(state.projects[i])
  \/ state.currentProject # NULL /\ ProjectDateFails(state.currentProject)

\* C15: whenever the persisted payload holds a date-bearing field, under
\* state.projects or state.currentProject, that does not parse to a valid
\* date, migrateLegacyStorage removes the whole slot; when every date-bearing
\* field parses, it leaves the slot unchanged
C15_MigrationAllOrNothing ==
  [][(slot.k = "json" /\ MigrateLegacyStorage) =>
       slot' = IF AnyDateFails(slot.v) THEN NoItem ELSE slot
    ]_vars

\* C19: in every start of the application migrateLegacyStorage has finished
\* with the slot before the persistence loader of the store reads it
C19_GuardBeforeLoader ==
  "hydrate" \notin pending => "migrateLegacyStorage" \notin pending

\* C16: every call of createProject, updateProject, deleteProject,
\* createTask, updateTask, deleteTask, addDependency and removeDependency
\* sets loading to true at its start and ends with loading false, whether it
\* succeeds or fails, so loading is false in every state between two
\* operations
C16_LoadingFlag ==
  /\ [](Idle => loading = FALSE)
  /\ [][/\ last'.outcome = "begun" => loading' = TRUE
        /\ (last.outcome = "begun" /\ last'.op \in AsyncOps) =>
              (last'.op = last.op /\ loading' = FALSE)
       ]_vars

\* a task operation that failed after its first statement, its flag reset
C16_Witness ==
  /\ last.op \in AsyncOps
  /\ last.outcome = "threw"
  /\ loading = FALSE
  /\ error # NULL
  /\ projects # <<>>

\* the step l failed: it threw, or selectProject found no project
Failed(l) ==
  \/ l.outcome = "threw"
  \/ l.op = "selectProject" /\ l.outcome = "notFound"

\* the step l is an operation of the store that succeeded
Succeeded(l) ==
  /\ l.op \in AsyncOps \cup {"selectProject", "loadDemoProject"}
  /\ ~Failed(l)

\* C17: after any operation that succeeds (createProject, updateProject,
\* deleteProject, selectProject, the task and dependency operations,
\* loadDemoProject) error is null, also when the preceding operation failed;
\* error becomes non-null only through an operation that fails, and then
\* stays set until clearError or the next successful operation
C17_ErrorLifecycle ==
  [][/\ Succeeded(last') => error' = NULL
     /\ (error = NULL /\ error' # NULL) => Failed(last')
     /\ (error # NULL /\ error' = NULL) =>
           (last'.op = "clearError" \/ Succeeded(last'))
    ]_vars

\* C20: in every state reachable from the empty store, currentProject is
\* either null or equal to the entry of projects that has the same id, and
\* such an entry exists
C20_CurrentProjectMirrored ==
  currentProject # NULL =>
    /\ \E i \in DOMAIN projects : projects[i].id = currentProject.id
    /\ \A i \in DOMAIN projects :
          projects[i].id = currentProject.id => projects[i] = currentProject

\* C21: in every state reachable by createTask, updateTask with any
\* updates, updateProject with any updates and loadDemoProject, every task
\* in a project's tasks has projectId equal to that project's id
C21_TasksBelongToProject ==
  /\ \A i \in DOMAIN projects : \A j \in DOMAIN projects[i].tasks :
        projects[i].tasks[j].projectId = projects[i].id
  /\ currentProject # NULL =>
        \A j \in DOMAIN currentProject.tasks :
           currentProject.tasks[j].projectId = currentProject.id

\* the ids of a sequence of projects or tasks, in order
IdsOf(seq) == [i \in DOMAIN seq |-> seq[i].id]

\* C22: ids are immutable: after updateProject(projectId, updates) or
\* updateTask(taskId, updates) with any updates object, including one that
\* carries an id field, the target keeps its id and the ids present in the
\* store are the same as before
C22_IdsImmutable ==
  [][/\ \A projectId \in ProjectIds, updates \in DemoUpdateInputs :
          UpdateProject(projectId, updates) =>
            /\ IdsOf(projects') = IdsOf(projects)
            /\ currentProject # NULL =>
                  (currentProject' # NULL /\ currentProject'.id = currentProject.id)
     /\ \A taskId \in HeadTaskIds, updates \in IdUpdateInputs :
          (currentProject # NULL /\ UpdateTask(taskId, updates)) =>
            /\ IdsOf(currentProject'.tasks) = IdsOf(currentProject.tasks)
            /\ IdsOf(projects') = IdsOf(projects)
    ]_vars

\* C23: in every reachable state each task's dependencies hold at most one
\* entry per (taskId, type) pair, including tasks created by createTask with
\* a dependencies array in taskData and tasks changed by updateTask
C23_DependenciesUnique ==
  \A task \in AllTasks :
     \A j, h \in DOMAIN task.dependencies :
        (/\ task.dependencies[j].taskId = task.dependencies[h].taskId
         /\ task.dependencies[j].type = task.dependencies[h].type) => j = h

\* some task of the store holds a dependency on the task taskId
DependedOn(taskId) ==
  \E task \in AllTasks : \E j \in DOMAIN task.dependencies :
     task.dependencies[j].taskId = taskId

\* the tasks of the projects whose id is projectId
TasksOfProject(projectId) ==
  UNION {Range(projects[i].tasks) : i \in {h \in DOMAIN projects : projects[h].id = projectId}}

\* C24: after deleteTask(t) or deleteProject(p) no task that remains in the
\* store, in any project, holds a dependency on t or on a task that belonged
\* to p
C24_DeleteCascades ==
  [][/\ \A taskId \in TaskIds :
          (currentProject # NULL /\ DeleteTask(taskId)) => ~DependedOn(taskId)'
     /\ \A projectId \in ProjectIds :
          DeleteProject(projectId) =>
            \A taskId \in {task.id : task \in TasksOfProject(projectId)} :
               ~DependedOn(taskId)'
    ]_vars

\* C25: whenever an operation of the store changes a field of an existing
\* task, the updatedAt of that task is the time of the operation, also for a
\* task whose dependencies are stripped by deleteTask and for a task that
\* gains a dependency by addDependency
C25_UpdatedAtRefreshed ==
  [][\A before \in AllTasks :
       \A after \in AllTasks' :
          (after.id = before.id /\ after # before) => after.updatedAt = DateOf(now')
    ]_vars

\* obj, the object that deserialize returns for the stored object stored,
\* has two valid dates in order when both dates of stored are strings
RepairedDates(stored, obj) ==
  (stored.startDate.k = "string" /\ stored.endDate.k = "string") =>
    /\ IsValidDate(obj.startDate)
    /\ IsValidDate(obj.endDate)
    /\ obj.endDate.ms > obj.startDate.ms

\* C26: for every stored payload that parses, after deserialize every object
\* under projects or currentProject whose startDate and endDate were stored
\* as strings has two valid dates with endDate strictly later than startDate
C26_DeserializeRepairs ==
  slot.k = "json" =>
    LET back == Deserialize(slot, now).value
    IN /\ \A i \in DOMAIN slot.v.projects :
             \A k \in DOMAIN slot.v.projects[i].tasks :
                RepairedDates(slot.v.projects[i].tasks[k], back.projects[i].tasks[k])
       /\ slot.v.currentProject # NULL =>
             \A k \in DOMAIN slot.v.currentProject.tasks :
                RepairedDates(slot.v.currentProject.tasks[k], back.currentProject.tasks[k])

\* C27: selectProject(null) deselects the current project: from any state it
\* ends with currentProject null and error null
C27_SelectNullDeselects ==
  [][SelectProject(NullId) => (currentProject' = NULL /\ error' = NULL)]_vars

\* C28: in the API-backed store isLoading is true whenever a loadProjects,
\* addTask or updateTask call is in flight: it is true once a call has
\* started, and it stays true when one of several overlapping calls
\* completes, whether its request resolved or failed, until the last of
\* them has completed
C28_LoadingWhileInFlight ==
  [][/\ \A call \in ApiCalls : ApiStart(call) => api'.isLoading
     /\ \A i \in DOMAIN api.calls, serverError \in BOOLEAN :
          (ApiSettle(i, serverError) /\ api'.calls # <<>>) => api'.isLoading
    ]_vars

\* the row has the eight columns, an id, and two valid dates in order
GoodRow(row) ==
  /\ Len(row) = Len(GetGanttColumns)
  /\ Len(row) = 8
  /\ Truthy(row[1])
  /\ IsValidDate(row[4])
  /\ IsValidDate(row[5])
  /\ row[5].ms > row[4].ms

\* C29: for every array of task objects, whatever their startDate and
\* endDate hold, every row returned by formatGanttData has exactly the 8
\* columns of getGanttColumns, a non-empty task id, a valid start date and a
\* valid end date strictly later than it, and validateGanttData accepts the
\* header row followed by those rows
C29_GanttRowsValid ==
  gantt.formatted =>
    /\ \A i \in DOMAIN gantt.rows : GoodRow(gantt.rows[i])
    /\ ValidateGanttData(GetGanttColumns, gantt.rows)

\* a row made for a task whose startDate and endDate are both no valid date
C29_Witness ==
  /\ gantt.formatted
  /\ gantt.rows # <<>>
  /\ \E i \in DOMAIN gantt.tasks.items :
        /\ ~IsValidDate(gantt.tasks.items[i].startDate)
        /\ ~IsValidDate(gantt.tasks.items[i].endDate)

\* C30: whenever the deferred initializeStore runs, afterwards every task in
\* projects and in currentProject has a valid startDate and a valid endDate
\* later than it, and the call has added, removed or reordered no project
\* or task, changed no id and left loading and error as they were
C30_DeferredInitialize ==
  [][InitializeStore =>
       /\ IdsOf(projects') = IdsOf(projects)
       /\ \A i \in DOMAIN projects :
             IdsOf(projects'[i].tasks) = IdsOf(projects[i].tasks)
       /\ (currentProject = NULL) = (currentProject' = NULL)
       /\ currentProject # NULL =>
             /\ currentProject'.id = currentProject.id
             /\ IdsOf(currentProject'.tasks) = IdsOf(currentProject.tasks)
       /\ loading' = loading
       /\ error' = error
       /\ \A task \in AllTasks' :
             /\ IsValidDate(task.startDate)
             /\ IsValidDate(task.endDate)
             /\ task.endDate.ms > task.startDate.ms
    ]_vars

====
